---- MODULE Spec2Model ----
(***************************************************************************)
(* GrassClient (src/src/client.js): the connect / authenticate /           *)
(* heartbeat / cleanup / backoff loop of one client, with the ws           *)
(* transport and the Node timers as the environment.                       *)
(*                                                                         *)
(* Time is Date.now() in milliseconds.  The clock advances in steps of     *)
(* Quantum, the greatest common divisor of the program's durations, and    *)
(* never passes the deadline of an armed timer: a due timer fires first.   *)
(* One action is one macrotask of the event loop (a timer callback or a    *)
(* transport event) together with every promise continuation it resumes.   *)
(***************************************************************************)
EXTENDS Integers, Sequences, FiniteSets, TLC

\* ---- bounds ----
MaxQuanta == 14          \* the clock stops after MaxQuanta steps of Quantum

\* A send timer as long as the tick period.
SendTimeoutSlow == 3 * 10000

\* ---- program constants (milliseconds) ----
reconnectDelay    == 10000
connectionTimeout == 30000
HeartbeatPeriod   == 30000
StaleAfter        == 45000
SendTimeout       == 10000

RECURSIVE GCD(_, _)
GCD(a, b) == IF b = 0 THEN a ELSE GCD(b, a % b)

Quantum == GCD(GCD(reconnectDelay, connectionTimeout),
               GCD(GCD(HeartbeatPeriod, StaleAfter), SendTimeout))

\* ---- values ----
Null      == 0           \* this.ws === null
NoTimer   == -1          \* a timer handle that is null or was cleared
Undefined == "<undefined>"
UserAgent == "Mozilla/5.0 Chrome/114.0.0.0"

UserIds == {"user-a", "user-b"}

\* The proxy strings given at construction.
Proxies == {"", "http://h:1", "http://u:p@h:1", "http://u@h:1",
            "http://:p@h:1", "not a url"}

\* The constructor arguments tried: every proxy string, under one of the users.
Configs ==
  {<<"user-a", "">>, <<"user-b", "http://h:1">>, <<"user-a", "http://u:p@h:1">>,
   <<"user-b", "http://u@h:1">>, <<"user-a", "http://:p@h:1">>,
   <<"user-b", "not a url">>}

\* new URL(proxy): the fields the code reads, or a TypeError.
ParseURL(p) ==
  CASE p = "http://h:1"     -> [ok |-> TRUE,  username |-> "",  password |-> ""]
    [] p = "http://u:p@h:1" -> [ok |-> TRUE,  username |-> "u", password |-> "p"]
    [] p = "http://u@h:1"   -> [ok |-> TRUE,  username |-> "u", password |-> ""]
    [] p = "http://:p@h:1"  -> [ok |-> TRUE,  username |-> "",  password |-> "p"]
    [] OTHER                -> [ok |-> FALSE, username |-> "",  password |-> ""]

\* The auth option handed to HttpsProxyAgent (client.js:74-76).
ProxyAuth(u) ==
  IF u.username # "" /\ u.password # ""
    THEN u.username \o ":" \o u.password
    ELSE Undefined

\* The proxy block of connect() (client.js:67-85):
\* "none" (no proxy), "agent" (agent built) or "throw" (Invalid proxy URL).
BuildAgent(p) ==
  IF p = "" THEN [result |-> "none", auth |-> Undefined]
  ELSE LET u == ParseURL(p) IN
       IF ~u.ok THEN [result |-> "throw", auth |-> Undefined]
       ELSE [result |-> "agent", auth |-> ProxyAuth(u)]

\* ---- wire frames ----
\* An inbound text frame: the text of a JSON object (with or without an id),
\* the text "null", or text that is not JSON.
ChallengeIds == {"abc123", "zz9"}
Inbound ==
  [text : {"object"}, id : ChallengeIds \cup {Undefined}]
    \cup {[text |-> "null", id |-> Undefined],
          [text |-> "garbage", id |-> Undefined]}

\* JSON.parse(data.toString()) followed by response.id (client.js:119-120):
\* throws on text that is not JSON and on null.id.
ParseChallenge(data) ==
  IF data.text = "object"
    THEN [ok |-> TRUE, id |-> data.id]
    ELSE [ok |-> FALSE, id |-> Undefined]

\* A sendAuthPayload that answers under the heartbeat's sentinel id.
AuthPayloadOwnId(authId, uid) ==
  [id |-> "F3X", origin_action |-> "AUTH", action |-> Undefined,
   user_id |-> uid, user_agent |-> UserAgent, device_type |-> "desktop",
   version |-> "4.28.1"]

\* The payload object of sendAuthPayload (client.js:131-142).
AuthPayload(authId, uid) ==
  [id |-> authId, origin_action |-> "AUTH", action |-> Undefined,
   user_id |-> uid, user_agent |-> UserAgent, device_type |-> "desktop",
   version |-> "4.28.1"]

\* The two heartbeat payloads (client.js:162-171).
PingPayload ==
  [id |-> "<uuid>", origin_action |-> Undefined, action |-> "PING",
   user_id |-> Undefined, user_agent |-> Undefined,
   device_type |-> Undefined, version |-> Undefined]

PongPayload ==
  [id |-> "F3X", origin_action |-> "PONG", action |-> Undefined,
   user_id |-> Undefined, user_agent |-> Undefined,
   device_type |-> Undefined, version |-> Undefined]

NoFrame ==
  [id |-> Undefined, origin_action |-> Undefined, action |-> Undefined,
   user_id |-> Undefined, user_agent |-> Undefined,
   device_type |-> Undefined, version |-> Undefined]

\* JSON.stringify(payload): the frame on the wire carries the payload's
\* fields; a field whose value is undefined is left out of the text.
Stringify(payload) ==
  [keys |-> {k \in DOMAIN payload : payload[k] # Undefined}, val |-> payload]

NoText == [keys |-> {}, val |-> NoFrame]

VARIABLES
  userId, proxy,          \* constructor arguments
  ws,                     \* this.ws: Null or the id of a transport
  heartbeatInterval,      \* this.heartbeatInterval: NoTimer or next tick time
  lastHeartbeat,          \* this.lastHeartbeat
  pc,                     \* the await start() is suspended at
  hbPc, hbNow,            \* the await a heartbeat tick is suspended at; its `now`
  hbWs,                   \* the transport that tick's pending send was handed to
  connectTimer,           \* `timeout` of connect()
  authTimer,              \* `authTimeout` of authenticate()
  reconnectTimer,         \* the setTimeout of the backoff sleep
  authSendTimer,          \* `timeout` of the sendMessage awaited by authenticate
  hbSendTimer,            \* `timeout` of the sendMessage awaited by a tick
  readyState,             \* readyState of the transport this.ws refers to
  wsCount,                \* number of transports created so far
  now,                    \* Date.now()
  op, fx,                 \* the last step taken and the calls it made, in order
  wire,                   \* the text that step handed to ws.send(), if any
  challenge,              \* the inbound message that step handled, if any
  lastSignal,             \* when the last liveness signal was observed
  cleanupAt               \* when cleanup() ran, while start() sleeps after it

vars == <<userId, proxy, ws, heartbeatInterval, lastHeartbeat, pc, hbPc, hbNow, hbWs,
          connectTimer, authTimer, reconnectTimer, authSendTimer, hbSendTimer,
          readyState, wsCount, now, op, fx, wire, challenge, lastSignal,
          cleanupAt>>
TypeOK ==
  /\ userId \in UserIds /\ proxy \in Proxies
  /\ ws \in 0..wsCount /\ wsCount \in Nat
  /\ pc \in {"init", "connecting", "authenticating", "authSending",
             "connected", "backoff", "thrown"}
  /\ hbPc \in {"idle", "ping", "pong"}
  /\ readyState \in {"NONE", "CONNECTING", "OPEN", "CLOSING", "CLOSED"}
  /\ now \in 0..(MaxQuanta * Quantum)
  /\ lastHeartbeat \in 0..now

\* ---- the ws transport ----
\* ws.terminate(): nothing on a missing or closed transport, otherwise the
\* socket is destroyed and the transport is CLOSING until its close event.
Terminate(w, rs) ==
  IF w = Null \/ rs = "CLOSED" \/ rs = "NONE" THEN rs ELSE "CLOSING"

\* ---- cleanup() (client.js:200-213) ----
\* A cleanup that closes whatever transport it finds.
CleanupCloseAlways(hb, w, rs) ==
  [heartbeatInterval |-> NoTimer, ws |-> Null, readyState |-> "NONE",
   fx |-> (IF hb # NoTimer THEN <<"clearInterval">> ELSE <<>>)
          \o (IF w # Null THEN <<"removeAllListeners", "close">> ELSE <<>>)]

\* A cleanup that nulls the timer field without cancelling the timer.
CleanupDropsTimer(hb, w, rs) ==
  [heartbeatInterval |-> NoTimer, ws |-> Null,
   readyState |-> IF w # Null THEN "NONE" ELSE rs,
   fx |-> IF w # Null
            THEN <<"removeAllListeners">>
                 \o (IF rs = "OPEN" THEN <<"close">> ELSE <<>>)
            ELSE <<>>]

\* A cleanup that forgets to cancel the heartbeat timer.
CleanupKeepsTimer(hb, w, rs) ==
  [heartbeatInterval |-> hb, ws |-> Null, readyState |-> "NONE",
   fx |-> IF w # Null
            THEN <<"removeAllListeners">>
                 \o (IF rs = "OPEN" THEN <<"close">> ELSE <<>>)
            ELSE <<>>]

\* The fields after the call and the calls made.  The transport a cleared
\* handle referred to is out of the program's reach: readyState is "NONE".
Cleanup(hb, w, rs) ==
  [heartbeatInterval |-> IF hb # NoTimer THEN NoTimer ELSE hb,
   ws |-> IF w # Null THEN Null ELSE w,
   readyState |-> IF w # Null THEN "NONE" ELSE rs,
   fx |-> (IF hb # NoTimer THEN <<"clearInterval">> ELSE <<>>)
          \o (IF w # Null
                THEN <<"removeAllListeners">>
                     \o (IF rs = "OPEN" THEN <<"close">> ELSE <<>>)
                ELSE <<>>)]

\* ---- sendMessage(payload) (client.js:182-198) ----
\* A sendMessage without the not-connected guard.
SendMessageUnguarded(payload, w, rs) ==
  [sent |-> TRUE, text |-> Stringify(payload), timer |-> now + SendTimeout,
   fx |-> <<"setTimeout", "ws.send">>]

\* Either rejects at once, or arms the 10s timer and hands the text to the
\* transport; the promise then settles in a later step.
SendMessage(payload, w, rs) ==
  IF w = Null \/ rs # "OPEN"
    THEN [sent |-> FALSE, text |-> NoText, timer |-> NoTimer,
          fx |-> <<"reject:WebSocket not connected">>]
    ELSE [sent |-> TRUE, text |-> Stringify(payload),
          timer |-> now + SendTimeout,
          fx |-> <<"setTimeout", "ws.send">>]

IsDue(t) == t # NoTimer /\ t <= now
static == <<userId, proxy, wsCount, now>>
tick   == <<hbPc, hbNow, hbWs, hbSendTimer>>
NoData == [text |-> "none", id |-> Undefined]

\* ---- start() (client.js:19-46) ----
Init ==
  /\ \E c \in Configs : userId = c[1] /\ proxy = c[2]
  /\ ws = Null /\ heartbeatInterval = NoTimer /\ lastHeartbeat = 0
  /\ pc = "init" /\ hbPc = "idle" /\ hbNow = 0 /\ hbWs = Null
  /\ connectTimer = NoTimer /\ authTimer = NoTimer /\ reconnectTimer = NoTimer
  /\ authSendTimer = NoTimer /\ hbSendTimer = NoTimer
  /\ readyState = "NONE" /\ wsCount = 0 /\ now = 0
  /\ op = "new" /\ fx = <<>> /\ wire = NoText
  /\ challenge = NoData
  /\ lastSignal = 0 /\ cleanupAt = NoTimer

\* A rejection inside the try block that leaves start() instead of being caught.
CatchMissing(first, rs) ==
  /\ pc' = "thrown"
  /\ fx' = first \o <<"throw">>
  /\ UNCHANGED <<heartbeatInterval, ws, readyState, reconnectTimer, cleanupAt>>

\* The catch block (client.js:40-44), entered with the transport in state rs
\* after the rejecting step made the calls `first`: cleanup(), then the sleep.
Catch(first, rs) ==
  LET c == Cleanup(heartbeatInterval, ws, rs) IN
  /\ heartbeatInterval' = c.heartbeatInterval
  /\ ws' = c.ws
  /\ readyState' = c.readyState
  /\ reconnectTimer' = now + reconnectDelay
  /\ cleanupAt' = now
  /\ pc' = "backoff"
  /\ fx' = first \o <<"catch", "cleanup">> \o c.fx \o <<"sleep">>

\* A teardown that sleeps longer the more attempts were made.
AfterCloseGrowing(rs) ==
  LET c == Cleanup(heartbeatInterval, ws, rs) IN
  /\ heartbeatInterval' = c.heartbeatInterval
  /\ ws' = c.ws
  /\ readyState' = c.readyState
  /\ reconnectTimer' = now + reconnectDelay * wsCount
  /\ cleanupAt' = now
  /\ pc' = "backoff"
  /\ fx' = <<"cleanup">> \o c.fx \o <<"sleep">>

\* The end of the try block once the close event resolved the wait
\* (client.js:38-39): cleanup(), then the sleep.
AfterClose(rs) ==
  LET c == Cleanup(heartbeatInterval, ws, rs) IN
  /\ heartbeatInterval' = c.heartbeatInterval
  /\ ws' = c.ws
  /\ readyState' = c.readyState
  /\ reconnectTimer' = now + reconnectDelay
  /\ cleanupAt' = now
  /\ pc' = "backoff"
  /\ fx' = <<"cleanup">> \o c.fx \o <<"sleep">>

\* The top of the loop: connect() up to its first await (client.js:48-107).
ConnectCall ==
  /\ IF BuildAgent(proxy).result = "throw"
       THEN /\ Catch(<<"throw:Invalid proxy URL">>, readyState)
            /\ UNCHANGED <<wsCount, connectTimer>>
       ELSE /\ wsCount' = wsCount + 1
            /\ ws' = wsCount + 1
            /\ readyState' = "CONNECTING"
            /\ connectTimer' = now + connectionTimeout
            /\ reconnectTimer' = NoTimer
            /\ pc' = "connecting"
            /\ cleanupAt' = NoTimer
            /\ fx' = <<"new WebSocket", "setTimeout">>
            /\ UNCHANGED heartbeatInterval
  /\ wire' = NoText /\ challenge' = NoData
  /\ UNCHANGED <<userId, proxy, lastHeartbeat, hbPc, hbNow, hbWs, authTimer,
                 authSendTimer, hbSendTimer, now, lastSignal>>

Start ==
  /\ pc = "init"
  /\ op' = "start"
  /\ ConnectCall

\* The backoff sleep ends and the loop starts over.  Node runs timers in the
\* order of their expiry, and a send timer still pending was armed before
\* this one: when both are due the send timer runs first.
ReconnectTimerFires ==
  /\ pc = "backoff"
  /\ IsDue(reconnectTimer)
  /\ ~IsDue(hbSendTimer)
  /\ op' = "reconnect"
  /\ ConnectCall
\* ---- connect(), after its first await (client.js:87-107) ----
\* An open listener that leaves the connect timer armed.
TransportOpenKeepsTimer ==
  /\ pc = "connecting" /\ readyState = "CONNECTING"
  /\ op' = "open"
  /\ readyState' = "OPEN"
  /\ lastSignal' = now
  /\ authTimer' = now + connectionTimeout
  /\ pc' = "authenticating"
  /\ fx' = <<"resolve", "setTimeout">>
  /\ wire' = NoText /\ challenge' = NoData
  /\ UNCHANGED <<static, tick, ws, heartbeatInterval, lastHeartbeat,
                 reconnectTimer, authSendTimer, cleanupAt, connectTimer>>

\* The open event: the listener clears the timer and resolves; start() goes
\* on to authenticate(), which arms authTimeout and waits for a message.
TransportOpen ==
  /\ pc = "connecting" /\ readyState = "CONNECTING"
  /\ op' = "open"
  /\ readyState' = "OPEN"
  /\ connectTimer' = NoTimer
  /\ lastSignal' = now
  /\ authTimer' = now + connectionTimeout
  /\ pc' = "authenticating"
  /\ fx' = <<"clearTimeout", "resolve", "setTimeout">>
  /\ wire' = NoText /\ challenge' = NoData
  /\ UNCHANGED <<static, tick, ws, heartbeatInterval, lastHeartbeat,
                 reconnectTimer, authSendTimer, cleanupAt>>

\* The error event before open (a failed handshake, or a handshake aborted
\* by terminate()): the transport is closed when the rejection is handled.
TransportError ==
  /\ pc = "connecting" /\ readyState \in {"CONNECTING", "CLOSING"}
  /\ op' = "error"
  /\ connectTimer' = NoTimer
  /\ Catch(<<"clearTimeout", "reject">>, "CLOSED")
  /\ wire' = NoText /\ challenge' = NoData
  /\ UNCHANGED <<static, tick, lastHeartbeat, authTimer, authSendTimer,
                 lastSignal>>

\* The connect timeout (client.js:90-95).
ConnectTimeout ==
  /\ pc = "connecting" /\ IsDue(connectTimer)
  /\ op' = "connectTimeout"
  /\ connectTimer' = NoTimer
  /\ Catch(IF ws # Null THEN <<"terminate", "reject">> ELSE <<"reject">>,
           Terminate(ws, readyState))
  /\ wire' = NoText /\ challenge' = NoData
  /\ UNCHANGED <<static, tick, lastHeartbeat, authTimer, authSendTimer,
                 lastSignal>>

\* ---- authenticate() (client.js:110-128) ----
\* An auth timeout whose rejection is lost.
AuthTimeoutLost ==
  /\ pc = "authenticating" /\ IsDue(authTimer)
  /\ op' = "authTimeout"
  /\ authTimer' = NoTimer
  /\ fx' = <<>>
  /\ wire' = NoText /\ challenge' = NoData
  /\ UNCHANGED <<static, tick, lastHeartbeat, connectTimer, authSendTimer,
                 lastSignal, heartbeatInterval, ws, readyState, reconnectTimer,
                 cleanupAt, pc>>

\* An auth timeout that terminates the transport before it rejects.
AuthTimeoutTerminates ==
  /\ pc = "authenticating" /\ IsDue(authTimer)
  /\ op' = "authTimeout"
  /\ authTimer' = NoTimer
  /\ Catch(<<"terminate", "reject">>, Terminate(ws, readyState))
  /\ wire' = NoText /\ challenge' = NoData
  /\ UNCHANGED <<static, tick, lastHeartbeat, connectTimer, authSendTimer,
                 lastSignal>>

AuthTimeout ==
  /\ pc = "authenticating" /\ IsDue(authTimer)
  /\ op' = "authTimeout"
  /\ authTimer' = NoTimer
  /\ Catch(<<"reject">>, readyState)
  /\ wire' = NoText /\ challenge' = NoData
  /\ UNCHANGED <<static, tick, lastHeartbeat, connectTimer, authSendTimer,
                 lastSignal>>

\* The first inbound message: parse it and send the auth payload.
MessageArrives(data) ==
  /\ pc = "authenticating" /\ readyState = "OPEN"
  /\ op' = "message"
  /\ authTimer' = NoTimer
  /\ challenge' = data
  /\ LET r == ParseChallenge(data)
         m == SendMessage(AuthPayload(r.id, userId), ws, readyState) IN
     IF ~r.ok
       THEN /\ Catch(<<"clearTimeout", "throw", "reject">>, readyState)
            /\ wire' = NoText
            /\ UNCHANGED authSendTimer
       ELSE IF ~m.sent
         THEN /\ Catch(<<"clearTimeout">> \o m.fx \o <<"reject">>, readyState)
              /\ wire' = NoText
              /\ UNCHANGED authSendTimer
         ELSE /\ wire' = m.text
              /\ authSendTimer' = m.timer
              /\ pc' = "authSending"
              /\ fx' = <<"clearTimeout">> \o m.fx
              /\ UNCHANGED <<heartbeatInterval, ws, readyState,
                             reconnectTimer, cleanupAt>>
  /\ UNCHANGED <<static, tick, lastHeartbeat, connectTimer, lastSignal>>

\* startHeartbeat() up to arming the interval (client.js:146-151, 179).
StartHeartbeat(hb) ==
  [heartbeatInterval |-> now + HeartbeatPeriod,
   fx |-> (IF hb # NoTimer THEN <<"clearInterval">> ELSE <<>>)
          \o <<"setInterval">>]

\* A send callback whose error authenticate() ignores.
AuthSendDoneIgnoresError(ok) ==
  /\ pc = "authSending"
  /\ ok => readyState # "CLOSED"
  /\ op' = "authSendDone"
  /\ authSendTimer' = NoTimer
  /\ heartbeatInterval' = now + HeartbeatPeriod
  /\ pc' = "connected"
  /\ fx' = <<"clearTimeout">> \o (IF ok THEN <<"resolve">> ELSE <<"reject">>)
           \o <<"setInterval">>
  /\ wire' = NoText /\ challenge' = NoData
  /\ UNCHANGED <<ws, readyState, reconnectTimer, cleanupAt>>
  /\ UNCHANGED <<static, tick, lastHeartbeat, connectTimer, authTimer,
                 lastSignal>>

\* The callback of the auth send.  A write cannot complete on a transport
\* whose close event has fired.  On success authenticate() resolves and
\* start() arms the heartbeat and waits for the close event.
AuthSendDone(ok) ==
  /\ pc = "authSending"
  /\ ok => readyState # "CLOSED"
  /\ op' = "authSendDone"
  /\ authSendTimer' = NoTimer
  /\ IF ok
       THEN LET h == StartHeartbeat(heartbeatInterval) IN
            /\ heartbeatInterval' = h.heartbeatInterval
            /\ pc' = "connected"
            /\ fx' = <<"clearTimeout", "resolve">> \o h.fx
            /\ UNCHANGED <<ws, readyState, reconnectTimer, cleanupAt>>
       ELSE Catch(<<"clearTimeout", "reject">>, readyState)
  /\ wire' = NoText /\ challenge' = NoData
  /\ UNCHANGED <<static, tick, lastHeartbeat, connectTimer, authTimer,
                 lastSignal>>

\* The 10s timer of the auth send (client.js:188-190).
AuthSendTimeout ==
  /\ pc = "authSending" /\ IsDue(authSendTimer)
  /\ op' = "authSendTimeout"
  /\ authSendTimer' = NoTimer
  /\ Catch(<<"reject">>, readyState)
  /\ wire' = NoText /\ challenge' = NoData
  /\ UNCHANGED <<static, tick, lastHeartbeat, connectTimer, authTimer,
                 lastSignal>>
\* ---- the heartbeat tick (client.js:151-179) ----
\* A tick whose catch block only logs.
TickCatchLogsOnly(first) ==
  /\ hbPc' = "idle" /\ hbNow' = 0 /\ hbWs' = Null
  /\ hbSendTimer' = NoTimer
  /\ wire' = NoText
  /\ fx' = first
  /\ UNCHANGED <<readyState, lastHeartbeat, lastSignal>>

\* The catch block of the tick: this.ws?.terminate().
TickCatch(first) ==
  /\ readyState' = Terminate(ws, readyState)
  /\ hbPc' = "idle" /\ hbNow' = 0 /\ hbWs' = Null
  /\ hbSendTimer' = NoTimer
  /\ wire' = NoText
  /\ fx' = first \o (IF ws # Null THEN <<"terminate">> ELSE <<>>)
  /\ UNCHANGED <<lastHeartbeat, lastSignal>>

\* A staleness test that allows two missed ticks.
StaleLate(t, last) == t - last > 2 * HeartbeatPeriod

\* The staleness test (client.js:156).
Stale(t, last) == t - last > StaleAfter

\* The interval callback up to its first await.  No tick starts while an
\* earlier one is suspended: see TickNeverOverlaps.
HeartbeatTick ==
  /\ IsDue(heartbeatInterval) /\ hbPc = "idle"
  /\ op' = "tick"
  /\ heartbeatInterval' = heartbeatInterval + HeartbeatPeriod
  /\ IF ws # Null /\ readyState = "OPEN"
       THEN IF Stale(now, lastHeartbeat)
              THEN /\ readyState' = Terminate(ws, readyState)
                   /\ fx' = <<"terminate">>
                   /\ wire' = NoText
                   /\ UNCHANGED <<tick, lastHeartbeat, lastSignal>>
              ELSE LET m == SendMessage(PingPayload, ws, readyState) IN
                   IF m.sent
                     THEN /\ wire' = m.text
                          /\ hbSendTimer' = m.timer
                          /\ hbPc' = "ping"
                          /\ hbNow' = now
                          /\ hbWs' = ws
                          /\ fx' = m.fx
                          /\ UNCHANGED <<readyState, lastHeartbeat, lastSignal>>
                     ELSE TickCatch(m.fx)
       ELSE /\ fx' = <<>>
            /\ wire' = NoText
            /\ UNCHANGED <<tick, readyState, lastHeartbeat, lastSignal>>
  /\ challenge' = NoData
  /\ UNCHANGED <<static, ws, pc, connectTimer, authTimer, reconnectTimer,
                 authSendTimer, cleanupAt>>

\* The callback of a tick's send.  A write cannot complete on the current
\* transport once its close event has fired.
HbSendDone(ok) ==
  /\ hbPc \in {"ping", "pong"}
  /\ ok => (hbWs # ws \/ readyState # "CLOSED")
  /\ op' = "hbSendDone"
  /\ IF ~ok
       THEN TickCatch(<<"clearTimeout", "reject">>)
       ELSE IF hbPc = "ping"
         THEN LET m == SendMessage(PongPayload, ws, readyState) IN
              IF m.sent
                THEN /\ wire' = m.text
                     /\ hbSendTimer' = m.timer
                     /\ hbPc' = "pong"
                     /\ hbWs' = ws
                     /\ fx' = <<"clearTimeout", "resolve">> \o m.fx
                     /\ UNCHANGED <<hbNow, readyState, lastHeartbeat,
                                    lastSignal>>
                ELSE TickCatch(<<"clearTimeout", "resolve">> \o m.fx)
         ELSE /\ lastHeartbeat' = hbNow
              /\ lastSignal' = now
              /\ hbPc' = "idle" /\ hbNow' = 0 /\ hbWs' = Null
              /\ hbSendTimer' = NoTimer
              /\ wire' = NoText
              /\ fx' = <<"clearTimeout", "resolve", "lastHeartbeat">>
              /\ UNCHANGED readyState
  /\ challenge' = NoData
  /\ UNCHANGED <<static, ws, heartbeatInterval, pc, connectTimer, authTimer,
                 reconnectTimer, authSendTimer, cleanupAt>>

\* The 10s timer of a tick's send.
HbSendTimeout ==
  /\ hbPc \in {"ping", "pong"} /\ IsDue(hbSendTimer)
  /\ op' = "hbSendTimeout"
  /\ TickCatch(<<"reject">>)
  /\ challenge' = NoData
  /\ UNCHANGED <<static, ws, heartbeatInterval, pc, connectTimer, authTimer,
                 reconnectTimer, authSendTimer, cleanupAt>>

\* ---- transport events after open ----
\* The peer starts the closing handshake.
RemoteClosing ==
  /\ ws # Null /\ readyState = "OPEN"
  /\ op' = "closing"
  /\ readyState' = "CLOSING"
  /\ fx' = <<>>
  /\ wire' = NoText /\ challenge' = NoData
  /\ UNCHANGED <<static, tick, ws, heartbeatInterval, lastHeartbeat, pc,
                 connectTimer, authTimer, reconnectTimer, authSendTimer,
                 lastSignal, cleanupAt>>

\* The close event.  Its listener exists only while start() waits for it
\* (client.js:26-31).
CloseEvent ==
  /\ ws # Null /\ readyState \in {"OPEN", "CLOSING"}
  /\ pc \in {"authenticating", "authSending", "connected"}
  /\ op' = "close"
  /\ IF pc = "connected"
       THEN AfterClose("CLOSED")
       ELSE /\ readyState' = "CLOSED"
            /\ fx' = <<>>
            /\ UNCHANGED <<heartbeatInterval, ws, reconnectTimer, cleanupAt,
                           pc>>
  /\ wire' = NoText /\ challenge' = NoData
  /\ UNCHANGED <<static, tick, lastHeartbeat, connectTimer, authTimer,
                 authSendTimer, lastSignal>>

\* A protocol pong.  Its listener exists only while start() waits for the
\* close event (client.js:33-35).
Pong ==
  /\ ws # Null /\ readyState = "OPEN"
  /\ op' = "pong"
  /\ IF pc = "connected"
       THEN /\ lastHeartbeat' = now
            /\ lastSignal' = now
            /\ fx' = <<"lastHeartbeat">>
       ELSE /\ fx' = <<>>
            /\ UNCHANGED <<lastHeartbeat, lastSignal>>
  /\ wire' = NoText /\ challenge' = NoData
  /\ UNCHANGED <<static, tick, ws, heartbeatInterval, pc, connectTimer,
                 authTimer, reconnectTimer, authSendTimer, readyState,
                 cleanupAt>>

\* ---- the clock ----
Advance ==
  /\ now < MaxQuanta * Quantum
  /\ \A t \in {heartbeatInterval, connectTimer, authTimer, reconnectTimer,
                authSendTimer, hbSendTimer} : ~IsDue(t)
  /\ op' = "advance"
  /\ now' = now + Quantum
  /\ fx' = <<>>
  /\ wire' = NoText /\ challenge' = NoData
  /\ UNCHANGED <<userId, proxy, wsCount, tick, ws, heartbeatInterval,
                 lastHeartbeat, pc, connectTimer, authTimer, reconnectTimer,
                 authSendTimer, readyState, lastSignal, cleanupAt>>

Next ==
  \/ Start
  \/ ReconnectTimerFires
  \/ TransportOpen
  \/ TransportError
  \/ ConnectTimeout
  \/ AuthTimeout
  \/ \E data \in Inbound : MessageArrives(data)
  \/ \E ok \in BOOLEAN : AuthSendDone(ok)
  \/ AuthSendTimeout
  \/ HeartbeatTick
  \/ \E ok \in BOOLEAN : HbSendDone(ok)
  \/ HbSendTimeout
  \/ RemoteClosing
  \/ CloseEvent
  \/ Pong
  \/ Advance

Spec == Init /\ [][Next]_vars

\* A tick never becomes due while an earlier tick is still suspended.
TickNeverOverlaps == IsDue(heartbeatInterval) => hbPc = "idle"
\* Timers fire and the clock runs: the event loop never starves a callback.
Fairness ==
  /\ WF_vars(Advance)
  /\ WF_vars(ReconnectTimerFires)
  /\ WF_vars(ConnectTimeout)
  /\ WF_vars(AuthTimeout)
  /\ WF_vars(AuthSendTimeout)
  /\ WF_vars(HeartbeatTick)
  /\ WF_vars(HbSendTimeout)

LiveSpec == Spec /\ Fairness

\* A transport that is closing (closed by the peer, or terminated) delivers
\* its close event.
CloseDelivered == readyState = "CLOSING" /\ CloseEvent

RecoverySpec == LiveSpec /\ WF_vars(CloseDelivered)

Range(q) == {q[i] : i \in 1..Len(q)}
Before(q, a, b) ==
  \E i \in 1..Len(q) : \E j \in 1..Len(q) : i < j /\ q[i] = a /\ q[j] = b

\* ---- claims ----

\* C1: after every successful connect() the liveness timestamp is not
\* earlier than the moment the open event fired.
C1_TimestampSetOnOpen == op = "open" => lastHeartbeat >= now

\* C2: start() never returns or throws; every failure of a cycle ends in the
\* catch block (cleanup, then the sleep), and every sleep is followed by a
\* new connect() call when its timer expires.
C2_SupervisorNeverStops ==
  /\ [](pc # "thrown")
  /\ [](op \in {"error", "connectTimeout", "authTimeout", "authSendTimeout"}
         => /\ pc = "backoff" /\ ws = Null /\ heartbeatInterval = NoTimer
            /\ reconnectTimer = now + 10000
            /\ Before(fx, "catch", "cleanup") /\ Before(fx, "cleanup", "sleep"))
  /\ \A parity \in {0, 1} :
        (pc = "backoff" /\ reconnectTimer <= MaxQuanta * Quantum
           /\ wsCount % 2 = parity /\ BuildAgent(proxy).result # "throw")
          ~> (op = "reconnect" /\ pc = "connecting" /\ wsCount % 2 # parity)
  /\ (pc = "backoff" /\ BuildAgent(proxy).result = "throw")
        ~> (pc = "backoff" /\ reconnectTimer > MaxQuanta * Quantum)

C2_Witness == op = "reconnect" /\ pc = "connecting" /\ wsCount >= 2

\* C3: a proxy URL with exactly one of username and password never gets a
\* transport: connect() fails before new WebSocket.
C3_PartialCredentialsRejected ==
  LET u == ParseURL(proxy) IN
  (u.ok /\ ((u.username = "") # (u.password = ""))) => wsCount = 0

\* C4: a tick that finds the transport open and the timestamp more than 45s
\* old terminates the transport, sends nothing and leaves the timestamp.
C4_StaleTickTerminates ==
  [][(op' = "tick" /\ ws # Null /\ readyState = "OPEN"
        /\ now - lastHeartbeat > 45000)
      => /\ readyState' = "CLOSING"
         /\ fx' = <<"terminate">>
         /\ wire' = NoText
         /\ hbPc' = "idle" /\ hbSendTimer' = NoTimer
         /\ lastHeartbeat' = lastHeartbeat]_vars

C4_Witness ==
  op = "tick" /\ fx = <<"terminate">> /\ readyState = "CLOSING"
    /\ now - lastHeartbeat > 45000

\* C5: a tick never terminates the transport for staleness while the last
\* liveness signal (open event, completed tick, observed pong) is less than
\* 45s old.
C5_FreshSessionNeverKilled ==
  (op = "tick" /\ fx = <<"terminate">>) => now - lastSignal > 45000

\* C6: every end of a cycle runs cleanup() and then arms the sleep for 10s,
\* and every connect() call after the first happens exactly 10s after that
\* cleanup(), whatever the number of cycles before.
C6_FixedBackoff ==
  [][/\ (pc' = "backoff"
          /\ op' \in {"start", "reconnect", "error", "connectTimeout",
                      "authTimeout", "message", "authSendDone",
                      "authSendTimeout", "close"})
        => /\ Before(fx', "cleanup", "sleep")
           /\ fx'[Len(fx')] = "sleep"
           /\ cleanupAt' = now'
           /\ reconnectTimer' = now' + 10000
     /\ op' = "reconnect"
        => /\ pc = "backoff" /\ cleanupAt # NoTimer
           /\ now' - cleanupAt = 10000]_vars

C6_Witness == op = "reconnect" /\ pc = "connecting" /\ now = 20000

\* C7: whenever connect() creates a transport, the handle was null and no
\* heartbeat timer was armed.
C7_OneSessionAtATime ==
  [][(ws' # Null /\ ws' # ws)
      => (ws = Null /\ heartbeatInterval = NoTimer /\ pc \in {"init", "backoff"})]_vars

C7_Witness == op = "reconnect" /\ ws = wsCount /\ wsCount >= 2

\* C8: a sendMessage that finds the handle null or the transport not open
\* rejects at once: no text reaches a transport and no send timer is armed.
C8_SendRejectsWhenNotConnected ==
  [][(op' = "hbSendDone" /\ hbPc = "ping" /\ "resolve" \in Range(fx')
        /\ (ws = Null \/ readyState # "OPEN"))
      => /\ "reject:WebSocket not connected" \in Range(fx')
         /\ "ws.send" \notin Range(fx')
         /\ "setTimeout" \notin Range(fx')
         /\ wire' = NoText
         /\ hbSendTimer' = NoTimer]_vars

C8_Witness ==
  /\ op = "hbSendDone" /\ Len(fx) >= 3
  /\ fx[3] = "reject:WebSocket not connected"

\* C9: from every state, cleanup() leaves the timer and the handle null, a
\* second call changes nothing and makes no call, and close() is called
\* exactly when the transport was open.
C9_CleanupIdempotent ==
  LET c1 == Cleanup(heartbeatInterval, ws, readyState)
      c2 == Cleanup(c1.heartbeatInterval, c1.ws, c1.readyState) IN
  /\ c1.heartbeatInterval = NoTimer /\ c1.ws = Null
  /\ c2.heartbeatInterval = NoTimer /\ c2.ws = Null
  /\ c2.readyState = c1.readyState
  /\ c2.fx = <<>>
  /\ ("close" \in Range(c1.fx)) <=> (ws # Null /\ readyState = "OPEN")
  /\ "cleanup" \in Range(fx) => (ws = Null /\ heartbeatInterval = NoTimer)

C9_Witness == "cleanup" \in Range(fx) /\ "close" \in Range(fx)

\* C10: the auth payload answers the challenge under the challenge's id,
\* with origin_action "AUTH" and the user id given at construction.
C10_AuthEchoesChallengeId ==
  (op = "message" /\ challenge.text = "object" /\ challenge.id # Undefined)
    => /\ wire # NoText
       /\ {"id", "origin_action", "user_id"} \subseteq wire.keys
       /\ wire.val.id = challenge.id
       /\ wire.val.origin_action = "AUTH"
       /\ wire.val.user_id = userId

C10_Witness ==
  op = "message" /\ challenge.id = "abc123" /\ pc = "authSending"
    /\ userId = "user-b"

Failed(q) ==
  "reject" \in Range(q) \/ "reject:WebSocket not connected" \in Range(q)

\* C11: every protocol pong on an open transport updates the liveness
\* timestamp, while authenticating as well as while connected.
C11_PongAlwaysObserved ==
  [][(op' = "pong" /\ ws # Null /\ readyState = "OPEN")
      => lastHeartbeat' = now']_vars

\* C13: a non-stale tick sends PING, sends PONG only after the PING send
\* succeeded, writes the timestamp only after both succeeded; a failed or
\* timed-out send terminates the transport the handle refers to, skips the
\* rest and leaves the timestamp; a tick on a transport that is not open does
\* nothing.
C13_TickSequence ==
  [][/\ (op' = "tick" /\ (ws = Null \/ readyState # "OPEN"))
        => /\ fx' = <<>> /\ wire' = NoText
           /\ UNCHANGED <<readyState, lastHeartbeat, hbPc, hbSendTimer>>
     /\ (op' = "tick" /\ ws # Null /\ readyState = "OPEN"
           /\ now - lastHeartbeat <= 45000)
        => /\ wire'.val.action = "PING" /\ hbPc' = "ping"
           /\ UNCHANGED <<readyState, lastHeartbeat>>
     /\ wire'.val.origin_action = "PONG"
        => /\ op' = "hbSendDone" /\ hbPc = "ping" /\ hbPc' = "pong"
           /\ "resolve" \in Range(fx')
           /\ lastHeartbeat' = lastHeartbeat
     /\ (op' = "hbSendDone" /\ hbPc = "pong" /\ ~Failed(fx'))
        => lastHeartbeat' = hbNow /\ hbPc' = "idle" /\ wire' = NoText
     /\ (op' \in {"tick", "hbSendDone", "hbSendTimeout"}
           /\ lastHeartbeat' # lastHeartbeat)
        => (op' = "hbSendDone" /\ hbPc = "pong" /\ ~Failed(fx'))
     /\ (op' = "hbSendTimeout" \/ (op' = "hbSendDone" /\ Failed(fx')))
        => /\ wire' = NoText
           /\ lastHeartbeat' = lastHeartbeat
           /\ hbPc' = "idle" /\ hbSendTimer' = NoTimer
           /\ ws # Null => "terminate" \in Range(fx')
           /\ (ws # Null /\ readyState \in {"CONNECTING", "OPEN"})
                => readyState' = "CLOSING"]_vars

C13_Witness ==
  /\ op = "hbSendDone" /\ fx = <<"clearTimeout", "resolve", "lastHeartbeat">>
  /\ lastHeartbeat > 0

\* C14: AUTH is written once per session, in the step that handles the first
\* message; start() reaches the connected wait only from a successful AUTH
\* send; a session whose authentication fails is dropped, and PING and PONG
\* are written only to the transport of a connected session.
C14_AuthOncePerSession ==
  [][/\ wire'.val.origin_action = "AUTH"
        => op' = "message" /\ pc = "authenticating" /\ pc' = "authSending"
     /\ (pc' = "authenticating" /\ pc # "authenticating")
        => op' = "open" /\ pc = "connecting" /\ ws' = ws
     /\ (pc' = "connected" /\ pc # "connected")
        => /\ op' = "authSendDone" /\ pc = "authSending"
           /\ "resolve" \in Range(fx') /\ "setInterval" \in Range(fx')
     /\ (op' \in {"authTimeout", "authSendTimeout"}
           \/ (op' \in {"message", "authSendDone"} /\ Failed(fx')))
        => pc' = "backoff" /\ ws' = Null /\ heartbeatInterval' = NoTimer
     /\ (wire'.val.action = "PING" \/ wire'.val.origin_action = "PONG")
        => pc = "connected" /\ ws' = ws /\ ws # Null]_vars

C14_Witness == op = "authSendDone" /\ pc = "connected"

\* C15: terminate() is called only by the connect timeout and by a tick; the
\* connect timeout terminates before it rejects and cleanup() then makes no
\* close(); no other exit of a cycle terminates.
C15_TerminateOnlyTwice ==
  [][/\ "terminate" \in Range(fx')
        => op' \in {"connectTimeout", "tick", "hbSendDone", "hbSendTimeout"}
     /\ op' = "connectTimeout"
        => /\ readyState = "CONNECTING"
           /\ Before(fx', "terminate", "reject")
           /\ Before(fx', "reject", "cleanup")
           /\ "close" \notin Range(fx')
           /\ ws' = Null]_vars

C15_Witness == op = "connectTimeout" /\ "terminate" \in Range(fx)

\* C17: no write of the liveness timestamp stores an earlier value.
C17_TimestampMonotone == [][lastHeartbeat' >= lastHeartbeat]_vars

\* C18: a suspended tick writes to and terminates only the transport it
\* started on, and no tick becomes due while another is suspended.
C18_TickStaysInItsSession ==
  /\ []TickNeverOverlaps
  /\ [][(op' \in {"hbSendDone", "hbSendTimeout"}
           /\ (wire' # NoText \/ "terminate" \in Range(fx')))
         => (ws = hbWs /\ pc = "connected")]_vars

C18_Witness == hbPc # "idle" /\ pc = "backoff" /\ hbWs # ws

\* C19: the connect timer is armed only while connect() waits on a transport
\* that has not opened, and connect() settles once: by open, error or timeout.
C19_ConnectSettlesOnce ==
  /\ [](connectTimer # NoTimer
          => (pc = "connecting" /\ readyState = "CONNECTING"))
  /\ [][/\ op' \in {"open", "error", "connectTimeout"}
           => /\ pc = "connecting" /\ pc' # "connecting"
              /\ connectTimer' = NoTimer
        /\ op' = "connectTimeout" => readyState # "OPEN"
        /\ (pc = "connecting" /\ pc' # "connecting")
           => op' \in {"open", "error", "connectTimeout"}]_vars

C19_Witness == op = "open" /\ connectTimer = NoTimer /\ now > 0

\* C12: a heartbeat timer is armed only while start() waits for the close
\* event; a timer is armed only when none is or the old one was cancelled
\* first, and the field is never nulled without cancelling the timer.
C12_HeartbeatOnlyWhenConnected ==
  /\ [](heartbeatInterval # NoTimer => (pc = "connected" /\ ws # Null))
  /\ [][/\ "setInterval" \in Range(fx')
           => (heartbeatInterval = NoTimer
                 \/ Before(fx', "clearInterval", "setInterval"))
        /\ (heartbeatInterval # NoTimer /\ heartbeatInterval' = NoTimer)
           => "clearInterval" \in Range(fx')
        /\ (heartbeatInterval = NoTimer /\ heartbeatInterval' # NoTimer)
           => (op' = "authSendDone" /\ "setInterval" \in Range(fx'))]_vars

C12_Witness ==
  op = "close" /\ pc = "backoff" /\ "clearInterval" \in Range(fx)
    /\ heartbeatInterval = NoTimer

====
